---------------------------- MODULE Spec2Model ----------------------------
(***************************************************************************)
(* The tty line discipline for LEGO Mindstorms EV3 UART sensors            *)
(* (drivers/legoev3/legoev3_uart.c) as a state machine.                    *)
(*                                                                         *)
(* port  : struct legoev3_uart_port_data, one record per attached tty.     *)
(* tty   : the serial port as the discipline drives it (baud rate, the     *)
(*         bytes the last handler run wrote to it), the sensor devices     *)
(*         registered below it, the handler that is in the middle of its   *)
(*         run (with the value it holds in a register), and                *)
(*         how far legoev3_uart_close has got (0: not called; 6: it has    *)
(*         returned and the port data is freed).                           *)
(* wire  : bytes the sensor has put on the line and the tty layer has not  *)
(*         yet handed to legoev3_uart_receive_buf.                         *)
(* sensor: what the sensor on the other end is sending (environment): the  *)
(*         frame on the wire, what the session looked like when it was     *)
(*         put there, and what the session has made of its bytes so far;   *)
(*         where the sensor follows a script, how far it has got and how   *)
(*         many modes it has.                                              *)
(* obs   : history of the last handler run (the frames its processing loop *)
(*         met, the kind of data event it was) and the number of bad data  *)
(*         events since the error counter was zero; written, never read,   *)
(*         by the handlers.  Its field call holds the last step's call of  *)
(*         a user entry point (set_mode, write_bin_data, show_value):      *)
(*         arguments, return value, output.                                *)
(***************************************************************************)
EXTENDS Integers, Sequences, FiniteSets, TLC

VARIABLES port, tty, wire, sensor, obs

vars == <<port, tty, wire, sensor, obs>>

(***************************************************************************)
(* Program constants                                                       *)
(***************************************************************************)
LEGOEV3_UART_BUFFER_SIZE == 256
LEGOEV3_UART_SENSOR_DATA_SIZE == 32
LEGOEV3_UART_MSG_TYPE_MASK == 192
LEGOEV3_UART_MSG_CMD_MASK == 7
LEGOEV3_UART_MAX_DATA_ERR == 6
LEGOEV3_UART_TYPE_UNKNOWN == 125
LEGOEV3_UART_SPEED_MIN == 2400
LEGOEV3_UART_SPEED_MID == 57600
LEGOEV3_UART_SPEED_MAX == 460800

\* legoev3_uart.h is not part of the sources at hand; these four are its values.
LEGOEV3_UART_TYPE_MAX == 101
LEGOEV3_UART_MODE_MAX == 7
LEGOEV3_UART_NAME_SIZE == 11
LEGOEV3_UART_UNITS_SIZE == 4
\* enum legoev3_uart_data_type of the same header
LEGOEV3_UART_DATA_8 == 0
LEGOEV3_UART_DATA_16 == 1
LEGOEV3_UART_DATA_32 == 2
LEGOEV3_UART_DATA_FLOAT == 3
\* errno
ENXIO == 6
EINVAL == 22

LEGOEV3_UART_MSG_TYPE_SYS == 0
LEGOEV3_UART_MSG_TYPE_CMD == 64
LEGOEV3_UART_MSG_TYPE_INFO == 128
LEGOEV3_UART_MSG_TYPE_DATA == 192

LEGOEV3_UART_SYS_SYNC == 0
LEGOEV3_UART_SYS_NACK == 2
LEGOEV3_UART_SYS_ACK == 4
LEGOEV3_UART_SYS_ESC == 6

LEGOEV3_UART_CMD_TYPE == 0
LEGOEV3_UART_CMD_MODES == 1
LEGOEV3_UART_CMD_SPEED == 2
LEGOEV3_UART_CMD_SELECT == 3
LEGOEV3_UART_CMD_WRITE == 4

LEGOEV3_UART_INFO_NAME == 0
LEGOEV3_UART_INFO_RAW == 1
LEGOEV3_UART_INFO_PCT == 2
LEGOEV3_UART_INFO_SI == 3
LEGOEV3_UART_INFO_UNITS == 4
LEGOEV3_UART_INFO_FORMAT == 128

LEGOEV3_UART_INFO_BIT_CMD_TYPE == 0
LEGOEV3_UART_INFO_BIT_CMD_MODES == 1
LEGOEV3_UART_INFO_BIT_CMD_SPEED == 2
LEGOEV3_UART_INFO_BIT_INFO_NAME == 3
LEGOEV3_UART_INFO_BIT_INFO_RAW == 4
LEGOEV3_UART_INFO_BIT_INFO_PCT == 5
LEGOEV3_UART_INFO_BIT_INFO_SI == 6
LEGOEV3_UART_INFO_BIT_INFO_UNITS == 7
LEGOEV3_UART_INFO_BIT_INFO_FORMAT == 8

\* info_flags is modelled as the set of the bit numbers that are set.
LEGOEV3_UART_INFO_FLAG_ALL_INFO ==
    { LEGOEV3_UART_INFO_BIT_INFO_NAME, LEGOEV3_UART_INFO_BIT_INFO_RAW,
      LEGOEV3_UART_INFO_BIT_INFO_PCT, LEGOEV3_UART_INFO_BIT_INFO_SI,
      LEGOEV3_UART_INFO_BIT_INFO_UNITS, LEGOEV3_UART_INFO_BIT_INFO_FORMAT }

LEGOEV3_UART_INFO_FLAG_REQUIRED ==
    { LEGOEV3_UART_INFO_BIT_CMD_TYPE, LEGOEV3_UART_INFO_BIT_CMD_MODES,
      LEGOEV3_UART_INFO_BIT_INFO_NAME, LEGOEV3_UART_INFO_BIT_INFO_FORMAT }

(***************************************************************************)
(* Bounds of the model                                                     *)
(***************************************************************************)
\* A delivery hands over at most MaxChunk bytes of the wire, or all of it.
MaxChunk == 2
\* The sensor puts a new frame on the wire only while at most MaxBacklog
\* bytes sit unprocessed in port.buffer.
MaxBacklog == 1

(***************************************************************************)
(* Bytes                                                                   *)
(***************************************************************************)
RECURSIVE XorBits(_, _, _)
XorBits(a, b, n) ==
    IF n = 0 THEN 0
    ELSE ((a + b) % 2) + 2 * XorBits(a \div 2, b \div 2, n - 1)

\* a ^ b on u8, tabulated once
XorTable == [ a \in 0..255 |-> [ b \in 0..255 |-> XorBits(a, b, 8) ] ]
Xor(a, b) == XorTable[a][b]

\* a & mask for the two masks the driver uses (both are runs of bits)
AndTypeMask(b) == (b \div 64) * 64
AndCmdMask(b) == b % 8

\* LEGOEV3_UART_CMD_SIZE(byte) == 1 << ((byte >> 3) & 0x7)
LEGOEV3_UART_CMD_SIZE(byte) == 2 ^ ((byte \div 8) % 8)

legoev3_uart_msg_size(header) ==
    IF AndTypeMask(header) = 0 THEN 1
    ELSE LEGOEV3_UART_CMD_SIZE(header) + 2
         + (IF AndTypeMask(header) = LEGOEV3_UART_MSG_TYPE_INFO THEN 1 ELSE 0)

\* chksum = 0xFF; for (i = 0; i < n; i++) chksum ^= b[i];   (b is 1-based here)
\* b[lo] ^ ... ^ b[hi], folded pairwise (XOR is associative)
RECURSIVE XorRange(_, _, _)
XorRange(b, lo, hi) ==
    IF lo > hi THEN 0
    ELSE IF lo = hi THEN b[lo]
    ELSE LET mid == (lo + hi) \div 2
         IN  Xor(XorRange(b, lo, mid), XorRange(b, mid + 1, hi))

\* chksum = 0xFF; for (i = 0; i < n; i++) chksum ^= b[i];
XorFold(b, n) == Xor(255, XorRange(b, 1, n))

\* the byte at C index k of the receive buffer; bytes at and past write_ptr
\* that were never written hold the zero kzalloc() left there
BufAt(b, k) == IF k < Len(b) THEN b[k + 1] ELSE 0

\* *(int *)(buffer + k), little endian, 32 bit two's complement
S32At(b, k) ==
    LET top == BufAt(b, k + 3)
    IN  BufAt(b, k) + 256 * BufAt(b, k + 1) + 65536 * BufAt(b, k + 2)
        + 16777216 * (IF top >= 128 THEN top - 256 ELSE top)

\* *(unsigned *)(buffer + k): a 32 bit word, kept as its four bytes in memory
\* order (least significant first)
U32At(b, k) == << BufAt(b, k), BufAt(b, k + 1), BufAt(b, k + 2), BufAt(b, k + 3) >>

\* the C string starting at C index k: the bytes before the first NUL
RECURSIVE CStr(_, _)
CStr(b, k) ==
    IF k >= Len(b) \/ b[k + 1] = 0 THEN <<>> ELSE <<b[k + 1]>> \o CStr(b, k + 1)

Min(a, b) == IF a < b THEN a ELSE b

(***************************************************************************)
(* struct legoev3_uart_port_data after legoev3_uart_open                   *)
(***************************************************************************)
Zeros(n) == [k \in 1..n |-> 0]

\* kzalloc: every field of every mode slot is zero until the first sync
ZeroModeInfo ==
    [ name |-> <<>>, raw_min |-> Zeros(4), raw_max |-> Zeros(4),
      pct_min |-> Zeros(4), pct_max |-> Zeros(4),
      si_min |-> Zeros(4), si_max |-> Zeros(4), units |-> <<>>, data_sets |-> 0, format |-> 0,
      figures |-> 0, decimals |-> 0,
      raw_data |-> Zeros(LEGOEV3_UART_SENSOR_DATA_SIZE) ]

legoev3_uart_default_mode_info ==
    [ ZeroModeInfo EXCEPT !.raw_max = <<0, 192, 127, 68>>,   \* 0x447fc000, 1023.0
                          !.pct_max = <<0, 0, 200, 66>>,     \* 0x42c80000,  100.0
                          !.si_max  = <<0, 0, 128, 63>>,     \* 0x3f800000,    1.0
                          !.figures = 4 ]

Modes == 0..LEGOEV3_UART_MODE_MAX

PortAfterOpen ==
    [ sensor              |-> FALSE,     \* port->sensor != NULL
      send_ack_work       |-> FALSE,     \* the delayed work is pending
      change_bitrate_work |-> FALSE,
      keep_alive_timer    |-> FALSE,     \* the hrtimer is armed
      keep_alive_tasklet  |-> FALSE,     \* the tasklet is scheduled
      mode_info           |-> [m \in Modes |-> ZeroModeInfo],
      type                |-> LEGOEV3_UART_TYPE_UNKNOWN,
      num_modes           |-> 0,
      num_view_modes      |-> 0,
      mode                |-> 0,
      new_baud_rate       |-> LEGOEV3_UART_SPEED_MIN,
      info_flags          |-> {},
      buffer              |-> <<>>,      \* buffer[0 .. write_ptr-1]
      last_err            |-> "",
      num_data_err        |-> 0,
      synced              |-> FALSE,
      info_done           |-> FALSE,
      data_rec            |-> FALSE ]

write_ptr == Len(port.buffer)

TtyAfterOpen ==
    [ baud |-> 2400, tx |-> <<>>,
      devices |-> 0,          \* sensor devices registered with parent tty->dev
      running |-> "none",     \* the handler being executed, when the model
                              \* lets other code run during it
      reg     |-> 0,          \* the value that handler has computed and not
                              \* yet stored
      close   |-> 0 ]

\* no call of a user entry point in the last step
NoCall == [ op |-> "none", arg |-> <<>>, ret |-> 0, out |-> <<>> ]

ObsInit ==
    [ frames |-> <<>>, overrun |-> 0, past_end |-> FALSE, bad_run |-> 0,
      last_event |-> "none", call |-> NoCall ]


(***************************************************************************)
(* legoev3_uart_receive_buf, computed on r = [p |-> port, o |-> obs]       *)
(***************************************************************************)
Take(s, n) == SubSeq(s, 1, Min(n, Len(s)))
Drop(s, n) == SubSeq(s, n + 1, Len(s))

\* schedule_delayed_work(): a work item that is already pending stays as it is
err_invalid_state(p) ==
    [ p EXCEPT !.synced = FALSE,
               !.new_baud_rate = LEGOEV3_UART_SPEED_MIN,
               !.change_bitrate_work = TRUE ]

\* The fields the scanner sets when it has found a valid TYPE command.
SyncedPort(p, type) ==
    [ p EXCEPT !.num_modes = 1,
               !.num_view_modes = 1,
               !.mode_info = [m \in Modes |-> legoev3_uart_default_mode_info],
               !.type = type,
               !.info_flags = { LEGOEV3_UART_INFO_BIT_CMD_TYPE },
               !.synced = TRUE,
               !.info_done = FALSE,
               !.buffer = <<>>,
               !.data_rec = FALSE,
               !.num_data_err = 0 ]

\* the type byte the scanner accepts
ValidType(type) == ~(type = 0 \/ type > LEGOEV3_UART_TYPE_MAX)

\* cp[i], cp[i+1], cp[i+2] (C indices) are a TYPE command with a valid type
\* and a matching checksum
TypeCmdAt(cp, i) ==
    /\ cp[i + 1] = LEGOEV3_UART_MSG_TYPE_CMD + LEGOEV3_UART_CMD_TYPE
    /\ ValidType(cp[i + 2])
    /\ cp[i + 3] = Xor(Xor(255, cp[i + 1]), cp[i + 2])

\* while (!port->synced) { ... }: the loop steps i from 0 over cp and stops at
\* the first i that starts a valid TYPE command, or returns from the function
\* when i + 2 >= count.  Yields the port and the C index reached; ret says
\* the function returned.
SyncScan(r, cp, i0) ==
    IF r.p.synced THEN [ r |-> r, i |-> i0, ret |-> FALSE ]
    ELSE LET hits == { i \in i0..(Len(cp) - 3) : TypeCmdAt(cp, i) }
         IN  IF hits = {} THEN [ r |-> r, i |-> i0, ret |-> TRUE ]
             ELSE LET i == CHOOSE h \in hits : \A g \in hits : h <= g
                  IN  [ r |-> [ p |-> SyncedPort(r.p, cp[i + 2]),
                                o |-> [ r.o EXCEPT !.bad_run = 0,
                                                   !.last_event = "none" ] ],
                        i |-> i + 3, ret |-> FALSE ]

\* the copy loop with its test one byte late: if (write_ptr > SIZE) goto err;
AppendBytesLate(p, rest) ==
    LET room == LEGOEV3_UART_BUFFER_SIZE + 1 - Len(p.buffer)
    IN  [ p   |-> [ p EXCEPT !.buffer = p.buffer \o Take(rest, room) ],
          err |-> Len(rest) > room ]

\* while (i < count) { if (write_ptr >= SIZE) goto err; buffer[write_ptr++] = cp[i++]; }
AppendBytes(p, rest) ==
    LET room == LEGOEV3_UART_BUFFER_SIZE - Len(p.buffer)
    IN  [ p   |-> [ p EXCEPT !.buffer = p.buffer \o Take(rest, room) ],
          err |-> Len(rest) > room ]

Fail(p, msg, size) == [ p |-> [ p EXCEPT !.last_err = msg ], err |-> TRUE, size |-> size ]
Done(p, size) == [ p |-> p, err |-> FALSE, size |-> size ]

\* case LEGOEV3_UART_MSG_TYPE_SYS
SysMsg(p, cmd, cmd2, msg_size) ==
    IF cmd = LEGOEV3_UART_SYS_SYNC THEN
        \* if (msg_size > 1 && (cmd ^ cmd2) == 0xFF) msg_size++;
        Done(p, IF msg_size > 1 /\ Xor(cmd, cmd2) = 255 THEN msg_size + 1 ELSE msg_size)
    ELSE IF cmd = LEGOEV3_UART_SYS_ACK THEN
        IF p.num_modes = 0
            THEN Fail(p, "Received ACK before all mode INFO.", msg_size)
        ELSE IF ~(LEGOEV3_UART_INFO_FLAG_REQUIRED \subseteq p.info_flags)
            THEN Fail(p, "Did not receive all required INFO.", msg_size)
        ELSE Done([ p EXCEPT !.send_ack_work = TRUE, !.info_done = TRUE ], msg_size)
    ELSE Done(p, msg_size)

\* case LEGOEV3_UART_MSG_TYPE_CMD
CmdMsg(p, cmd, cmd2, msg_size) ==
    IF cmd = LEGOEV3_UART_CMD_MODES THEN
        LET q == [ p EXCEPT !.info_flags = @ \cup { LEGOEV3_UART_INFO_BIT_CMD_MODES } ]
        IN  IF LEGOEV3_UART_INFO_BIT_CMD_MODES \in p.info_flags
                THEN Fail(q, "Received duplicate modes INFO.", msg_size)
            ELSE IF cmd2 = 0 \/ cmd2 > LEGOEV3_UART_MODE_MAX
                THEN Fail(q, "Number of modes is out of range.", msg_size)
            ELSE Done([ q EXCEPT !.num_modes = cmd2 + 1,
                                 !.num_view_modes =
                                     IF msg_size > 3 THEN (BufAt(p.buffer, 2) + 1) % 256
                                     ELSE cmd2 + 1 ], msg_size)
    ELSE IF cmd = LEGOEV3_UART_CMD_SPEED THEN
        LET q == [ p EXCEPT !.info_flags = @ \cup { LEGOEV3_UART_INFO_BIT_CMD_SPEED } ]
            speed == S32At(p.buffer, 1)
        IN  IF LEGOEV3_UART_INFO_BIT_CMD_SPEED \in p.info_flags
                THEN Fail(q, "Received duplicate speed INFO.", msg_size)
            ELSE IF speed < LEGOEV3_UART_SPEED_MIN \/ speed > LEGOEV3_UART_SPEED_MAX
                THEN Fail(q, "Speed is out of range.", msg_size)
            ELSE Done([ q EXCEPT !.new_baud_rate = speed ], msg_size)
    ELSE Fail(p, "Unknown command.", msg_size)

\* case LEGOEV3_UART_INFO_NAME
InfoName(p, mode, msg_size) ==
    LET q  == [ p EXCEPT !.info_flags = @ \ LEGOEV3_UART_INFO_FLAG_ALL_INFO ]
        b2 == BufAt(p.buffer, 2)
        \* port->buffer[msg_size - 1] = 0;
        z  == [ q EXCEPT !.buffer[msg_size] = 0 ]
        name == CStr(z.buffer, 2)
    IN  IF b2 < 65 \/ b2 > 122 THEN Fail(q, "Invalid name INFO.", msg_size)
        ELSE IF Len(name) > LEGOEV3_UART_NAME_SIZE
            THEN Fail(z, "Name is too long.", msg_size)
        ELSE Done([ z EXCEPT !.mode_info[mode].name = Take(name, LEGOEV3_UART_NAME_SIZE),
                             !.mode = mode,
                             !.info_flags = @ \cup { LEGOEV3_UART_INFO_BIT_INFO_NAME } ],
                  msg_size)

\* case LEGOEV3_UART_INFO_RAW / _PCT / _SI: bit is the flag, lo and hi the fields
InfoScaling(p, mode, msg_size, bit, lo, hi, dup) ==
    LET q == [ p EXCEPT !.info_flags = @ \cup { bit } ]
    IN  IF p.mode # mode THEN Fail(p, "Received INFO for incorrect mode.", msg_size)
        ELSE IF bit \in p.info_flags THEN Fail(q, dup, msg_size)
        ELSE Done([ q EXCEPT !.mode_info[mode][lo] = U32At(p.buffer, 2),
                             !.mode_info[mode][hi] = U32At(p.buffer, 6) ], msg_size)

\* case LEGOEV3_UART_INFO_UNITS
InfoUnits(p, mode, msg_size) ==
    LET q == [ p EXCEPT !.info_flags = @ \cup { LEGOEV3_UART_INFO_BIT_INFO_UNITS } ]
        z == [ q EXCEPT !.buffer[msg_size] = 0 ]
    IN  IF p.mode # mode THEN Fail(p, "Received INFO for incorrect mode.", msg_size)
        ELSE IF LEGOEV3_UART_INFO_BIT_INFO_UNITS \in p.info_flags
            THEN Fail(q, "Received duplicate SI units INFO.", msg_size)
        ELSE Done([ z EXCEPT !.mode_info[mode].units =
                                 Take(CStr(z.buffer, 2), LEGOEV3_UART_UNITS_SIZE) ],
                  msg_size)

\* case LEGOEV3_UART_INFO_FORMAT
InfoFormat(p, mode, msg_size) ==
    LET q == [ p EXCEPT !.info_flags = @ \cup { LEGOEV3_UART_INFO_BIT_INFO_FORMAT } ]
        d == [ q EXCEPT !.mode_info[mode].data_sets = BufAt(p.buffer, 2) ]
        f == [ d EXCEPT !.mode_info[mode].format = BufAt(p.buffer, 3) ]
    IN  IF p.mode # mode THEN Fail(p, "Received INFO for incorrect mode.", msg_size)
        ELSE IF LEGOEV3_UART_INFO_BIT_INFO_FORMAT \in p.info_flags
            THEN Fail(q, "Received duplicate format INFO.", msg_size)
        ELSE IF BufAt(p.buffer, 2) = 0
            THEN Fail(d, "Invalid number of data sets.", msg_size)
        ELSE IF msg_size < 7 THEN Fail(d, "Invalid format message size.", msg_size)
        ELSE IF ~(LEGOEV3_UART_INFO_FLAG_REQUIRED \subseteq d.info_flags)
            THEN Fail(d, "Did not receive all required INFO.", msg_size)
        ELSE IF p.mode # 0
            THEN Done([ f EXCEPT !.mode = @ - 1,
                                 !.mode_info[mode].figures = BufAt(p.buffer, 4),
                                 !.mode_info[mode].decimals = BufAt(p.buffer, 5) ],
                      msg_size)
        ELSE Done(f, msg_size)

\* case LEGOEV3_UART_MSG_TYPE_INFO
InfoMsg(p, mode, cmd2, msg_size) ==
    IF cmd2 = LEGOEV3_UART_INFO_NAME THEN InfoName(p, mode, msg_size)
    ELSE IF cmd2 = LEGOEV3_UART_INFO_RAW
        THEN InfoScaling(p, mode, msg_size, LEGOEV3_UART_INFO_BIT_INFO_RAW,
                         "raw_min", "raw_max", "Received duplicate raw scaling INFO.")
    ELSE IF cmd2 = LEGOEV3_UART_INFO_PCT
        THEN InfoScaling(p, mode, msg_size, LEGOEV3_UART_INFO_BIT_INFO_PCT,
                         "pct_min", "pct_max", "Received duplicate percent scaling INFO.")
    ELSE IF cmd2 = LEGOEV3_UART_INFO_SI
        THEN InfoScaling(p, mode, msg_size, LEGOEV3_UART_INFO_BIT_INFO_SI,
                         "si_min", "si_max", "Received duplicate SI scaling INFO.")
    ELSE IF cmd2 = LEGOEV3_UART_INFO_UNITS THEN InfoUnits(p, mode, msg_size)
    ELSE IF cmd2 = LEGOEV3_UART_INFO_FORMAT THEN InfoFormat(p, mode, msg_size)
    ELSE Done(p, msg_size)

\* case LEGOEV3_UART_MSG_TYPE_DATA.  memcpy() copies msg_size - 2 bytes; the
\* part that fits raw_data is recorded here.
DataMsg(p, mode, msg_size) ==
    IF ~p.info_done THEN Fail(p, "Received DATA before INFO was complete.", msg_size)
    ELSE Done([ p EXCEPT !.mode = mode,
                         !.mode_info[mode].raw_data =
                             [ k \in 1..LEGOEV3_UART_SENSOR_DATA_SIZE |->
                                 IF k <= msg_size - 2 THEN BufAt(p.buffer, k) ELSE @[k] ],
                         !.data_rec = TRUE,
                         !.num_data_err = IF @ # 0 THEN @ - 1 ELSE @ ],
              msg_size)


\* if (chksum != buffer[msg_size - 1] && port->type != 29 && buffer[0] != 0xDC)
ChecksumRejected(p, hdr, chksum, last) ==
    chksum # last /\ p.type # 29 /\ hdr # 220

\* the same test with >= for >
DataErrTripAtMax(p) == p.info_done /\ p.num_data_err >= LEGOEV3_UART_MAX_DATA_ERR

\* if (port->info_done && port->num_data_err > LEGOEV3_UART_MAX_DATA_ERR)
DataErrTrip(p) == p.info_done /\ p.num_data_err > LEGOEV3_UART_MAX_DATA_ERR

\* for (i = 0; i + msg_size < write_ptr; i++) buffer[i] = buffer[i + msg_size];
\* write_ptr = i;
ShiftLeftover(p, msg_size) == [ p EXCEPT !.buffer = Drop(@, msg_size) ]

\* what the history keeps of one pass of the processing loop
Seen(p, size0, consumed, chk_ok, verdict) ==
    [ bytes |-> Take(p.buffer, size0), follow |-> BufAt(p.buffer, size0),
      size |-> consumed, chk_ok |-> chk_ok, verdict |-> verdict,
      running |-> p.info_done ]

Bump(n) == IF n >= 0 THEN n + 1 ELSE n

\* One pass of the loop body on a buffer that holds a complete message.
\* Yields the port, the history and whether the pass left by err_invalid_state.
ProcessOne(r) ==
    LET p      == r.p
        b      == p.buffer
        hdr    == b[1]
        size0  == legoev3_uart_msg_size(hdr)
        msg_type == AndTypeMask(hdr)
        cmd    == AndCmdMask(hdr)
        mode   == cmd
        cmd2   == BufAt(b, 1)
        chksum == XorFold(b, size0 - 1)
        chk_ok == size0 = 1 \/ chksum = b[size0]
        note(q, consumed, verdict, event, run) ==
            [ r.o EXCEPT !.frames = Append(@, Seen(p, size0, consumed, chk_ok, verdict)),
                         !.last_event = event,
                         !.bad_run = run,
                         !.overrun = IF verdict = "ok" /\ msg_type = LEGOEV3_UART_MSG_TYPE_DATA
                                        /\ size0 - 2 > LEGOEV3_UART_SENSOR_DATA_SIZE
                                     THEN size0 - 2 - LEGOEV3_UART_SENSOR_DATA_SIZE ELSE @ ]
        \* err_bad_data_msg_checksum: and what follows it
        tail(q, size, verdict, event, run) ==
            IF DataErrTrip(q)
            THEN [ p |-> err_invalid_state(q), o |-> note(q, 0, "data_err_trip", event, run),
                   err |-> TRUE ]
            ELSE [ p |-> ShiftLeftover(q, size), o |-> note(q, size, verdict, event, run),
                   err |-> FALSE ]
    IN  IF hdr = 255 THEN
            [ p |-> ShiftLeftover(p, 1),
              o |-> [ r.o EXCEPT !.frames =
                          Append(@, [ bytes |-> <<hdr>>, follow |-> BufAt(b, 1),
                                      size |-> 1, chk_ok |-> TRUE,
                                      verdict |-> "split_sync_checksum",
                                      running |-> p.info_done ]) ],
              err |-> FALSE ]
        ELSE IF size0 > 1 /\ ChecksumRejected(p, hdr, chksum, b[size0]) THEN
            LET q == [ p EXCEPT !.last_err = "Bad checksum." ]
            IN  IF p.info_done
                THEN tail([ q EXCEPT !.num_data_err = @ + 1 ], size0, "bad_checksum",
                          "bad_chksum", Bump(r.o.bad_run))
                ELSE [ p |-> err_invalid_state(q),
                       o |-> note(q, 0, "bad_checksum", "none", r.o.bad_run),
                       err |-> TRUE ]
        ELSE
            LET res == CASE msg_type = LEGOEV3_UART_MSG_TYPE_SYS -> SysMsg(p, cmd, cmd2, size0)
                         [] msg_type = LEGOEV3_UART_MSG_TYPE_CMD -> CmdMsg(p, cmd, cmd2, size0)
                         [] msg_type = LEGOEV3_UART_MSG_TYPE_INFO -> InfoMsg(p, mode, cmd2, size0)
                         [] OTHER -> DataMsg(p, mode, size0)
                isData == msg_type = LEGOEV3_UART_MSG_TYPE_DATA
            IN  IF res.err
                THEN [ p |-> err_invalid_state(res.p),
                       o |-> note(res.p, 0, "invalid_state", "none", r.o.bad_run),
                       err |-> TRUE ]
                ELSE tail(res.p, res.size, "ok",
                          IF isData THEN "good_data" ELSE "none",
                          IF isData THEN (IF res.p.num_data_err = 0 THEN 0 ELSE -1)
                          ELSE r.o.bad_run)

\* the same test with < for <=
MessageCompleteLate(p) ==
    legoev3_uart_msg_size(BufAt(p.buffer, 0)) < Len(p.buffer)

\* (msg_size = legoev3_uart_msg_size(port->buffer[0])) <= port->write_ptr
MessageComplete(p) ==
    legoev3_uart_msg_size(BufAt(p.buffer, 0)) <= Len(p.buffer)

\* while (a complete message is buffered) { ... }
RECURSIVE ProcessLoop(_)
ProcessLoop(r) ==
    IF ~MessageComplete(r.p) THEN r
    ELSE LET one == ProcessOne(r)
         IN  IF one.err THEN [ p |-> one.p, o |-> one.o ]
             ELSE ProcessLoop([ p |-> one.p, o |-> one.o ])

legoev3_uart_receive_buf(r, cp) ==
    LET s == SyncScan(r, cp, 0)
    IN  IF s.ret \/ ~s.r.p.synced THEN s.r
        ELSE LET a == AppendBytes(s.r.p, Drop(cp, s.i))
                 \* history: the bytes held and the bytes to copy exceed the buffer
                 o == [ s.r.o EXCEPT !.past_end =
                          Len(s.r.p.buffer) + Len(cp) - s.i > LEGOEV3_UART_BUFFER_SIZE ]
             IN  IF a.err THEN [ p |-> err_invalid_state(a.p), o |-> o ]
                 ELSE ProcessLoop([ p |-> a.p, o |-> o ])

(***************************************************************************)
(* The sensor and the line                                                 *)
(***************************************************************************)
\* header || payload || 0xFF ^ header ^ payload...
Frame(body) == Append(body, XorFold(body, Len(body)))
\* the same frame with one bit of its checksum flipped
Corrupt(f) == [ f EXCEPT ![Len(f)] = Xor(@, 1) ]

TypeCmd(type) == Frame(<<64, type>>)                        \* 0x40 type chk
ModesCmd(modes, views) == Frame(<<73, modes - 1, views - 1>>)   \* 0x49
SpeedCmd(b0, b1, b2, b3) == Frame(<<82, b0, b1, b2, b3>>)   \* 0x52, little endian
InfoNameMsg(mode) == Frame(<<128 + mode, 0, 65>>)           \* 0x80|mode NAME "A"
InfoFormatMsg(mode) == Frame(<<144 + mode, 128, 1, 0, 4, 0>>)  \* 0x90|mode FORMAT
DataByte(mode, v) == Frame(<<192 + mode, v>>)               \* 0xC0|mode v chk
\* 0xDC: DATA, 8 bytes, mode 4 (the colour sensor's RGB-RAW)
DataRgbRaw == Frame(<<220, 1, 0, 2, 0, 3, 0, 0, 0>>)

\* the tty after a handler run that wrote nothing
NoWrite(t) == [ t EXCEPT !.tx = <<>> ]

ChunkSizes == { n \in 1..Len(wire) : n <= MaxChunk \/ n = Len(wire) }

\* the bytes received and not yet processed
Backlog == IF port.synced THEN Len(port.buffer) ELSE 0

\* The sensor starts sending frame f; it notes whether the session was synced
\* and how many bytes it had buffered at that moment.
SensorSend(f) ==
    /\ wire = <<>>
    /\ Backlog <= MaxBacklog
    /\ wire' = f
    /\ sensor' = [ sensor EXCEPT !.frame = f,
                                 !.synced = port.synced,
                                 !.backlog = Backlog,
                                 !.pieces = 0,
                                 !.seen = <<>> ]
    /\ UNCHANGED <<port, tty, obs>>

\* The sensor sends the frames of its handshake one after the other, and
\* starts over after the last.
HandshakeSeq ==
    << TypeCmd(16), ModesCmd(2, 2), InfoNameMsg(0), InfoFormatMsg(0),
       <<LEGOEV3_UART_SYS_ACK>> >>

SensorHandshake ==
    /\ wire = <<>>
    /\ wire' = HandshakeSeq[sensor.idx + 1]
    /\ sensor' = [ sensor EXCEPT !.frame = HandshakeSeq[sensor.idx + 1],
                                 !.synced = port.synced,
                                 !.backlog = Backlog,
                                 !.pieces = 0,
                                 !.seen = <<>>,
                                 !.idx = (@ + 1) % Len(HandshakeSeq) ]
    /\ UNCHANGED <<port, tty, obs>>

\* The handshake of a sensor of type 16 with the given number of modes, one
\* view, data of one signed byte in mode 0, and no CMD_SPEED.
HappySeq(modes) ==
    << TypeCmd(16), ModesCmd(modes, 1), InfoNameMsg(0), InfoFormatMsg(0),
       <<LEGOEV3_UART_SYS_ACK>> >>

\* Such a sensor sends its handshake once, frame after frame, and DATA of
\* mode 0 from then on.
HappyFrame(modes, idx) ==
    IF idx < Len(HappySeq(modes)) THEN HappySeq(modes)[idx + 1] ELSE DataByte(0, 7)

SensorHappy(modes) ==
    /\ wire = <<>>
    /\ sensor.idx > 0 => modes = sensor.modes
    /\ wire' = HappyFrame(modes, sensor.idx)
    /\ sensor' = [ sensor EXCEPT !.frame = HappyFrame(modes, sensor.idx),
                                 !.synced = port.synced,
                                 !.backlog = Backlog,
                                 !.pieces = 0,
                                 !.seen = <<>>,
                                 !.idx = Min(@ + 1, Len(HappySeq(modes))),
                                 !.modes = modes ]
    /\ UNCHANGED <<port, tty, obs>>

\* A sensor of the given type sends its handshake and then, without a good
\* frame in between, as many DATA frames with a wrong checksum as it takes to
\* pass LEGOEV3_UART_MAX_DATA_ERR.
TripSeq(type) ==
    << TypeCmd(type), ModesCmd(2, 2), InfoNameMsg(0), InfoFormatMsg(0),
       <<LEGOEV3_UART_SYS_ACK>> >>
    \o [ k \in 1..(LEGOEV3_UART_MAX_DATA_ERR + 1) |-> Corrupt(DataByte(0, 42)) ]

\* It goes on as the type it has announced.
SensorTrip(type) ==
    /\ wire = <<>>
    /\ sensor.idx < Len(TripSeq(type))
    /\ sensor.idx > 0 => type = port.type
    /\ wire' = TripSeq(type)[sensor.idx + 1]
    /\ sensor' = [ sensor EXCEPT !.frame = TripSeq(type)[sensor.idx + 1],
                                 !.synced = port.synced,
                                 !.backlog = Backlog,
                                 !.pieces = 0,
                                 !.seen = <<>>,
                                 !.idx = @ + 1 ]
    /\ UNCHANGED <<port, tty, obs>>

\* A sensor that restarts: its handshake, then, after the session has sent
\* its ACK and set the baud rate, a TYPE command again (which a synced session
\* rejects, so it resyncs), the TYPE command once more and a CMD_SPEED for
\* 57600 baud.
RestartSeq ==
    << TypeCmd(16), ModesCmd(2, 2), InfoNameMsg(0), InfoFormatMsg(0),
       <<LEGOEV3_UART_SYS_ACK>>,
       TypeCmd(16), TypeCmd(16), SpeedCmd(0, 225, 0, 0), DataByte(0, 7) >>

\* the number of frames of the first handshake
HandshakeLen == 5

SensorRestart ==
    /\ wire = <<>>
    /\ sensor.idx < Len(RestartSeq)
    /\ sensor.idx = HandshakeLen =>
           ~port.send_ack_work /\ ~port.change_bitrate_work /\ port.keep_alive_timer
    /\ wire' = RestartSeq[sensor.idx + 1]
    /\ sensor' = [ sensor EXCEPT !.frame = RestartSeq[sensor.idx + 1],
                                 !.synced = port.synced,
                                 !.backlog = Backlog,
                                 !.pieces = 0,
                                 !.seen = <<>>,
                                 !.idx = @ + 1 ]
    /\ UNCHANGED <<port, tty, obs>>

\* The tty layer hands the next n bytes to the line discipline.
Receive(n) ==
    /\ n \in 1..Len(wire)
    /\ LET cp == Take(wire, n)
           r  == legoev3_uart_receive_buf(
                    [ p |-> port,
                      o |-> [ obs EXCEPT !.frames = <<>>, !.overrun = 0, !.past_end = FALSE, !.call = NoCall ] ], cp)
       IN  /\ port' = r.p
           /\ obs' = r.o
           /\ sensor' = [ sensor EXCEPT !.pieces = @ + 1,
                                 !.seen = @ \o [ k \in 1..Len(r.o.frames) |->
                                                          r.o.frames[k].bytes ] ]
           /\ wire' = Drop(wire, n)
    /\ tty' = NoWrite(tty)

\* The tty layer hands a whole frame, as the sensor sent it, to the line
\* discipline in one call (nothing of it waits on the wire).
ReceiveFrame(f) ==
    /\ wire = <<>>
    /\ LET r == legoev3_uart_receive_buf(
                    [ p |-> port,
                      o |-> [ obs EXCEPT !.frames = <<>>, !.overrun = 0, !.past_end = FALSE, !.call = NoCall ] ], f)
       IN  /\ port' = r.p
           /\ obs' = r.o
    /\ tty' = NoWrite(tty)
    /\ UNCHANGED <<wire, sensor>>

(***************************************************************************)
(* Delayed work, timer and tasklet                                         *)
(***************************************************************************)
\* the history after a handler that met no frame and no data event
Quiet(o) ==
    [ o EXCEPT !.frames = <<>>, !.overrun = 0, !.past_end = FALSE, !.call = NoCall,
               !.last_event = "none" ]

\* legoev3_uart_write_byte
legoev3_uart_write_byte(t, byte) == [ t EXCEPT !.tx = <<byte>> ]

\* legoev3_uart_send_ack; registered says whether legoev3_port_device_register
\* and sysfs_create_bin_file both succeeded
SendAck(p, t, registered) ==
    LET fresh == ~p.sensor /\ p.type <= LEGOEV3_UART_TYPE_MAX
    IN  IF fresh /\ ~registered
        THEN [ p |-> p, t |-> NoWrite(t) ]
        ELSE [ p |-> [ p EXCEPT !.sensor = @ \/ fresh,
                                !.change_bitrate_work = TRUE ],
               t |-> [ legoev3_uart_write_byte(t, LEGOEV3_UART_SYS_ACK)
                         EXCEPT !.devices = IF fresh THEN @ + 1 ELSE @ ] ]

\* the work item run from start to end with nothing in between
legoev3_uart_send_ack(registered) ==
    /\ port.send_ack_work
    /\ LET r == SendAck([ port EXCEPT !.send_ack_work = FALSE ], tty, registered)
       IN  port' = r.p /\ tty' = r.t
    /\ obs' = Quiet(obs)
    /\ UNCHANGED <<wire, sensor>>

\* The same work item where other code may run while it executes: a worker
\* takes it off the queue (it is no longer pending) ...
SendAckStart ==
    /\ port.send_ack_work
    /\ tty.running = "none"
    /\ port' = [ port EXCEPT !.send_ack_work = FALSE ]
    /\ tty' = [ NoWrite(tty) EXCEPT !.running = "send_ack" ]
    /\ obs' = Quiet(obs)
    /\ UNCHANGED <<wire, sensor>>

\* ... and runs the function.
SendAckRun(registered) ==
    /\ tty.running = "send_ack"
    /\ LET r == SendAck(port, tty, registered)
       IN  port' = r.p /\ tty' = [ r.t EXCEPT !.running = "none" ]
    /\ obs' = Quiet(obs)
    /\ UNCHANGED <<wire, sensor>>

legoev3_uart_change_bitrate ==
    /\ port.change_bitrate_work
    /\ tty' = [ NoWrite(tty) EXCEPT !.baud = port.new_baud_rate ]
    /\ port' = [ port EXCEPT !.change_bitrate_work = FALSE,
                             !.keep_alive_timer = @ \/ port.info_done ]
    /\ obs' = Quiet(obs)
    /\ UNCHANGED <<wire, sensor>>

\* the verdict of the callback: TRUE is HRTIMER_RESTART
KeepAliveRestart(p) == ~(p.num_data_err > LEGOEV3_UART_MAX_DATA_ERR)

legoev3_uart_keep_alive_timer_callback ==
    /\ port.keep_alive_timer
    /\ IF ~port.synced \/ ~port.info_done
       THEN /\ port' = [ port EXCEPT !.keep_alive_timer = FALSE ]
            /\ obs' = Quiet(obs)
       ELSE LET miss == ~port.data_rec
                q == [ port EXCEPT !.last_err = IF miss THEN "No data since last keep-alive."
                                                ELSE @,
                                   !.num_data_err = IF miss THEN @ + 1 ELSE @,
                                   !.data_rec = FALSE,
                                   !.keep_alive_tasklet = TRUE ]
            IN  /\ port' = [ q EXCEPT !.keep_alive_timer = KeepAliveRestart(q) ]
                /\ obs' = [ Quiet(obs) EXCEPT !.last_event = IF miss THEN "miss" ELSE "none",
                        !.bad_run = IF miss THEN Bump(@) ELSE @ ]
    /\ tty' = NoWrite(tty)
    /\ UNCHANGED <<wire, sensor>>

legoev3_uart_send_keep_alive ==
    /\ port.keep_alive_tasklet
    /\ port' = [ port EXCEPT !.keep_alive_tasklet = FALSE ]
    /\ tty' = legoev3_uart_write_byte(tty, LEGOEV3_UART_SYS_NACK)
    /\ obs' = Quiet(obs)
    /\ UNCHANGED <<wire, sensor>>

\* legoev3_uart_receive_buf on a frame with a bad checksum in a session that
\* has info_done, up to the store of `port->num_data_err++`: last_err is set,
\* the counter is loaded and the incremented value is in a register.  The
\* driver takes no lock and masks no interrupt, so the hrtimer callback can
\* run before the store.  (Runs that end in err_invalid_state are left to
\* ReceiveFrame.)
ReceiveBadLoad(f) ==
    /\ wire = <<>>
    /\ tty.running = "none"
    /\ port.synced /\ port.info_done
    /\ port.buffer = <<>>
    /\ port.num_data_err < LEGOEV3_UART_MAX_DATA_ERR
    /\ LET r == legoev3_uart_receive_buf(
                    [ p |-> port,
                      o |-> [ obs EXCEPT !.frames = <<>>, !.overrun = 0, !.past_end = FALSE, !.call = NoCall ] ], f)
       IN  /\ r.o.last_event = "bad_chksum"
           /\ port' = [ r.p EXCEPT !.num_data_err = port.num_data_err ]
           /\ tty' = [ NoWrite(tty) EXCEPT !.running = "receive_buf",
                                           !.reg = r.p.num_data_err ]
           /\ obs' = r.o
    /\ UNCHANGED <<wire, sensor>>

\* the store, and the rest of that run
ReceiveBadStore ==
    /\ tty.running = "receive_buf"
    /\ port' = [ port EXCEPT !.num_data_err = tty.reg ]
    /\ tty' = [ NoWrite(tty) EXCEPT !.running = "none", !.reg = 0 ]
    /\ obs' = Quiet(obs)
    /\ UNCHANGED <<wire, sensor>>

(***************************************************************************)
(* legoev3_uart_close, statement by statement                              *)
(***************************************************************************)
\* if (port->sensor) { sysfs_remove_bin_file; legoev3_port_device_unregister }
CloseUnregister ==
    /\ tty.close = 0
    /\ tty' = [ NoWrite(tty) EXCEPT !.close = 1,
                                    !.devices = IF port.sensor THEN @ - 1 ELSE @ ]
    /\ obs' = Quiet(obs)
    /\ UNCHANGED <<port, wire, sensor>>

\* cancel_delayed_work_sync(&port->send_ack_work): takes the item off the
\* queue and returns once no worker is executing it
CloseCancelSendAck ==
    /\ tty.close = 1
    /\ tty.running # "send_ack"
    /\ port' = [ port EXCEPT !.send_ack_work = FALSE ]
    /\ tty' = [ NoWrite(tty) EXCEPT !.close = 2 ]
    /\ obs' = Quiet(obs)
    /\ UNCHANGED <<wire, sensor>>

\* cancel_delayed_work_sync(&port->change_bitrate_work)
CloseCancelChangeBitrate ==
    /\ tty.close = 2
    /\ port' = [ port EXCEPT !.change_bitrate_work = FALSE ]
    /\ tty' = [ NoWrite(tty) EXCEPT !.close = 3 ]
    /\ obs' = Quiet(obs)
    /\ UNCHANGED <<wire, sensor>>

\* hrtimer_cancel(&port->keep_alive_timer)
CloseCancelTimer ==
    /\ tty.close = 3
    /\ port' = [ port EXCEPT !.keep_alive_timer = FALSE ]
    /\ tty' = [ NoWrite(tty) EXCEPT !.close = 4 ]
    /\ obs' = Quiet(obs)
    /\ UNCHANGED <<wire, sensor>>

\* tasklet_kill(&port->keep_alive_tasklet): returns once the tasklet is not
\* scheduled
CloseKillTasklet ==
    /\ tty.close = 4
    /\ ~port.keep_alive_tasklet
    /\ tty' = [ NoWrite(tty) EXCEPT !.close = 5 ]
    /\ obs' = Quiet(obs)
    /\ UNCHANGED <<port, wire, sensor>>

\* tty->disc_data = NULL; kfree(port); return
CloseFree ==
    /\ tty.close = 5
    /\ tty' = [ NoWrite(tty) EXCEPT !.close = 6 ]
    /\ obs' = Quiet(obs)
    /\ UNCHANGED <<port, wire, sensor>>

legoev3_uart_close ==
    \/ CloseUnregister
    \/ CloseCancelSendAck
    \/ CloseCancelChangeBitrate
    \/ CloseCancelTimer
    \/ CloseKillTasklet
    \/ CloseFree

(***************************************************************************)
(* Entry points for the sensor's users                                     *)
(***************************************************************************)
\* find_last_bit(&word, nbits): the highest bit set among bits 0..nbits-1 of
\* word, or nbits when none of them is set
find_last_bit(word, nbits) ==
    LET set == { k \in 0..(nbits - 1) : (word \div (2 ^ k)) % 2 = 1 }
    IN  IF set = {} THEN nbits ELSE CHOOSE k \in set : \A j \in set : j <= k

\* legoev3_uart_set_msg_hdr; long_bytes is sizeof(unsigned long) of the build,
\* which the function passes to find_last_bit as the number of bits to search
legoev3_uart_set_msg_hdr(type, size, cmd, long_bytes) ==
    LET size_code == (find_last_bit(size, long_bytes) % 8) * 8
    IN  AndTypeMask(type) + size_code + AndCmdMask(cmd)

\* sizeof(unsigned long): 4 on the EV3 (32-bit ARM), 8 on a 64-bit build
LongSizes == { 4, 8 }

\* legoev3_uart_get_mode
legoev3_uart_get_mode == port.mode

\* the same with mode > port->num_modes as the range test
SetModeOffByOne(mode, long_bytes) ==
    LET hdr  == legoev3_uart_set_msg_hdr(LEGOEV3_UART_MSG_TYPE_CMD, 1,
                                         LEGOEV3_UART_CMD_SELECT, long_bytes)
        data == << hdr, mode, Xor(Xor(255, hdr), mode) >>
        ok   == ~(mode > port.num_modes)
    IN  /\ tty' = [ tty EXCEPT !.tx = IF ok THEN data ELSE <<>> ]
        /\ obs' = [ Quiet(obs) EXCEPT !.call =
                      [ op |-> "set_mode", arg |-> <<mode>>,
                        ret |-> IF ok THEN 0 ELSE -EINVAL, out |-> <<>> ] ]
        /\ UNCHANGED <<port, wire, sensor>>

\* the same, recording the requested mode as the current one at once
SetModeEager(mode, long_bytes) ==
    LET hdr  == legoev3_uart_set_msg_hdr(LEGOEV3_UART_MSG_TYPE_CMD, 1,
                                         LEGOEV3_UART_CMD_SELECT, long_bytes)
        data == << hdr, mode, Xor(Xor(255, hdr), mode) >>
        ok   == ~(mode >= port.num_modes)
    IN  /\ tty' = [ tty EXCEPT !.tx = IF ok THEN data ELSE <<>> ]
        /\ obs' = [ Quiet(obs) EXCEPT !.call =
                      [ op |-> "set_mode", arg |-> <<mode>>,
                        ret |-> IF ok THEN 0 ELSE -EINVAL, out |-> <<>> ] ]
        /\ port' = [ port EXCEPT !.mode = IF ok THEN mode ELSE @ ]
        /\ UNCHANGED <<wire, sensor>>

\* legoev3_uart_set_mode; tty->ops->write takes the three bytes
legoev3_uart_set_mode(mode, long_bytes) ==
    LET hdr  == legoev3_uart_set_msg_hdr(LEGOEV3_UART_MSG_TYPE_CMD, 1,
                                         LEGOEV3_UART_CMD_SELECT, long_bytes)
        data == << hdr, mode, Xor(Xor(255, hdr), mode) >>
        ok   == ~(mode >= port.num_modes)
    IN  /\ tty' = [ tty EXCEPT !.tx = IF ok THEN data ELSE <<>> ]
        /\ obs' = [ Quiet(obs) EXCEPT !.call =
                      [ op |-> "set_mode", arg |-> <<mode>>,
                        ret |-> IF ok THEN 0 ELSE -EINVAL, out |-> <<>> ] ]
        /\ UNCHANGED <<port, wire, sensor>>

\* if (count <= 2) size = count; else if (count <= 4) size = 4; ...
WriteSize(count) ==
    IF count <= 2 THEN count
    ELSE IF count <= 4 THEN 4
    ELSE IF count <= 8 THEN 8
    ELSE IF count <= 16 THEN 16
    ELSE 32

\* data[0..size+1] as legoev3_uart_write_bin_data builds it from buf
WriteData(buf, count, long_bytes) ==
    LET size == WriteSize(count)
        hdr  == legoev3_uart_set_msg_hdr(LEGOEV3_UART_MSG_TYPE_CMD, size,
                                         LEGOEV3_UART_CMD_WRITE, long_bytes)
        body == << hdr >> \o [ k \in 1..size |-> IF k <= count THEN buf[k] ELSE 0 ]
    IN  Append(body, XorFold(body, size + 1))

\* legoev3_uart_write_bin_data: the bin_data file exists while the sensor
\* device is registered; count = Len(buf); tty->ops->write takes the bytes
legoev3_uart_write_bin_data(buf, off, long_bytes) ==
    LET count == Len(buf)
        bad   == off # 0 \/ count > 32
    IN  /\ port.sensor
        /\ tty' = [ tty EXCEPT !.tx = IF bad \/ count = 0 THEN <<>>
                                      ELSE WriteData(buf, count, long_bytes) ]
        /\ obs' = [ Quiet(obs) EXCEPT !.call =
                      [ op |-> "write", arg |-> <<count, off, long_bytes>>,
                        ret |-> IF bad THEN -EINVAL ELSE count, out |-> buf ] ]
        /\ UNCHANGED <<port, wire, sensor>>

\* *(s8 *)(raw_data + index), *(s16 *)(raw_data + index * 2), ...: the bytes
\* at C offset k of raw_data as a little-endian two's complement integer
SignedAt(raw, k, width) ==
    LET byte(j) == IF k + j < Len(raw) THEN raw[k + j + 1] ELSE 0
        top     == byte(width - 1)
    IN  IF width = 1 THEN (IF top >= 128 THEN top - 256 ELSE top)
        ELSE IF width = 2
            THEN (IF top >= 128 THEN top - 256 ELSE top) * 256 + byte(0)
        ELSE (IF top >= 128 THEN top - 256 ELSE top) * 16777216
                 + byte(2) * 65536 + byte(1) * 256 + byte(0)

\* legoev3_uart_show_value: the value attributes exist while the sensor
\* device is registered.  out is the integer printed; for the float format
\* it is the word and the decimals handed to legoev3_uart_ftoi.
legoev3_uart_show_value(index) ==
    LET mi  == port.mode_info[legoev3_uart_get_mode]
        raw == mi.raw_data
        res == IF index >= mi.data_sets THEN [ ret |-> -ENXIO, out |-> <<>> ]
               ELSE IF mi.format = LEGOEV3_UART_DATA_8
                   THEN [ ret |-> 1, out |-> << SignedAt(raw, index, 1) >> ]
               ELSE IF mi.format = LEGOEV3_UART_DATA_16
                   THEN [ ret |-> 1, out |-> << SignedAt(raw, index * 2, 2) >> ]
               ELSE IF mi.format = LEGOEV3_UART_DATA_32
                   THEN [ ret |-> 1, out |-> << SignedAt(raw, index * 4, 4) >> ]
               ELSE IF mi.format = LEGOEV3_UART_DATA_FLOAT
                   THEN [ ret |-> 1, out |-> << "ftoi", U32At(raw, index * 4),
                                               mi.decimals >> ]
               ELSE [ ret |-> -ENXIO, out |-> <<>> ]
    IN  /\ port.sensor
        /\ obs' = [ Quiet(obs) EXCEPT !.call =
                      [ op |-> "show_value", arg |-> <<index>>,
                        ret |-> res.ret, out |-> res.out ] ]
        /\ tty' = NoWrite(tty)
        /\ UNCHANGED <<port, wire, sensor>>

(***************************************************************************)
(* Specifications                                                          *)
(***************************************************************************)
Init ==
    /\ port = PortAfterOpen
    /\ tty = TtyAfterOpen
    /\ wire = <<>>
    /\ sensor = [ frame |-> <<>>, synced |-> FALSE, backlog |-> 0, pieces |-> 0,
                  seen |-> <<>>, idx |-> 0, modes |-> 0 ]
    /\ obs = ObsInit

\* the handshake of a sensor that announces two modes and describes mode 0
Handshake(type) ==
    { TypeCmd(type), ModesCmd(2, 2), InfoNameMsg(0), InfoFormatMsg(0),
      <<LEGOEV3_UART_SYS_ACK>> }

\* What the sensor may send under Spec: the handshake of a sensor of type 16,
\* measurements for modes 0 and 2, a damaged measurement.  Each frame arrives
\* in one delivery, and the sensor device registers.
Frames ==
    Handshake(16) \cup { DataByte(0, 42), DataByte(2, 7), Corrupt(DataByte(0, 42)) }

Next ==
    \/ \E f \in Frames : ReceiveFrame(f)
    \/ legoev3_uart_send_ack(TRUE)
    \/ legoev3_uart_change_bitrate
    \/ legoev3_uart_keep_alive_timer_callback
    \/ legoev3_uart_send_keep_alive

Spec == Init /\ [][Next]_vars

Running == port.synced /\ port.info_done


\* What the sensor may send under SpecColor: the handshakes of a type 16 and of
\* a type 29 (colour) sensor, and two measurements with a wrong checksum, one
\* of them the colour sensor's RGB-RAW frame (header 0xDC).
ColorFrames ==
    Handshake(16) \cup Handshake(29)
    \cup { Corrupt(DataByte(0, 42)), Corrupt(DataRgbRaw) }

NextColor ==
    \/ \E f \in ColorFrames : ReceiveFrame(f)
    \/ legoev3_uart_send_ack(TRUE)
    \/ legoev3_uart_change_bitrate
    \/ legoev3_uart_keep_alive_timer_callback
    \/ legoev3_uart_send_keep_alive

SpecColor == Init /\ [][NextColor]_vars

\* What the sensor may send under SpecFramer: the records of a handshake but
\* never the SYS_ACK that ends it, single SYS bytes, the IR sensor's SYNC with
\* its 0xFF checksum, a stray 0xFF, and the longest frame there is (header
\* 0xFF: DATA, 128 bytes, mode 7; every payload byte 0xFF).  The line delivers
\* them in pieces.  As no handshake completes, the ACK work, the timer and the
\* tasklet are never pending here.
DataMax == Frame([ k \in 1..129 |-> 255 ])

FramerFrames ==
    { TypeCmd(16), InfoNameMsg(0), InfoFormatMsg(0),
      <<LEGOEV3_UART_SYS_SYNC, 255>>, <<255>>, DataMax }

NextFramer ==
    \/ \E f \in FramerFrames : SensorSend(f)
    \/ \E n \in ChunkSizes : Receive(n)
    \/ legoev3_uart_change_bitrate

SpecFramer == Init /\ [][NextFramer]_vars

\* Under SpecLive the sensor repeats its handshake for ever, the line delivers
\* it in pieces, and whatever is pending or armed eventually runs.
NextLive ==
    \/ SensorHandshake
    \/ \E n \in ChunkSizes : Receive(n)
    \/ legoev3_uart_send_ack(TRUE)
    \/ legoev3_uart_change_bitrate
    \/ legoev3_uart_keep_alive_timer_callback
    \/ legoev3_uart_send_keep_alive

SpecLive ==
    /\ Init
    /\ [][NextLive]_vars
    /\ WF_vars(SensorHandshake)
    /\ WF_vars(\E n \in ChunkSizes : Receive(n))
    /\ WF_vars(legoev3_uart_send_ack(TRUE))
    /\ WF_vars(legoev3_uart_change_bitrate)
    /\ WF_vars(legoev3_uart_keep_alive_timer_callback)
    /\ WF_vars(legoev3_uart_send_keep_alive)

\* Under SpecFlood the sensor sends the first records of a handshake and long
\* runs of the byte 0xF8, the header of a 130-byte DATA message, so that the
\* receive buffer fills up.  As no handshake completes, the ACK work, the
\* timer and the tasklet are never pending here.
Filler(n) == [ k \in 1..n |-> 248 ]

FloodFrames ==
    { TypeCmd(16), ModesCmd(2, 2), InfoNameMsg(0),
      Filler(127), Filler(129), Filler(130) }

NextFlood ==
    \/ \E f \in FloodFrames : ReceiveFrame(f)
    \/ legoev3_uart_change_bitrate

SpecFlood == Init /\ [][NextFlood]_vars

\* Under SpecUser a two-mode sensor sends its TYPE command, the rest of its
\* handshake (which arrives in one delivery) and DATA for mode 1, in any
\* order, and users select modes, write to the sensor and read values at any
\* moment.
WriteBuf(count) == [ k \in 1..count |-> k ]

UserFrames ==
    { TypeCmd(16),
      InfoNameMsg(0) \o ModesCmd(2, 2) \o InfoFormatMsg(0) \o <<LEGOEV3_UART_SYS_ACK>>,
      DataByte(1, 7) }

NextUser ==
    \/ \E f \in UserFrames : ReceiveFrame(f)
    \/ legoev3_uart_send_ack(TRUE)
    \/ legoev3_uart_change_bitrate
    \/ legoev3_uart_keep_alive_timer_callback
    \/ legoev3_uart_send_keep_alive
    \/ \E mode \in 0..2, long_bytes \in LongSizes :
           legoev3_uart_set_mode(mode, long_bytes)
    \/ \E count \in { 0, 1, 32, 33 }, off \in { 0, 1 }, long_bytes \in LongSizes :
           legoev3_uart_write_bin_data(WriteBuf(count), off, long_bytes)
    \/ \E index \in 0..1 : legoev3_uart_show_value(index)

SpecUser == Init /\ [][NextUser]_vars

\* Under SpecHdr the header encoder is applied to every message type, every
\* payload size that is a power of two up to 32 and every command, on either
\* build.
MsgTypes ==
    { LEGOEV3_UART_MSG_TYPE_SYS, LEGOEV3_UART_MSG_TYPE_CMD,
      LEGOEV3_UART_MSG_TYPE_INFO, LEGOEV3_UART_MSG_TYPE_DATA }

PayloadSizes == { 1, 2, 4, 8, 16, 32 }

SetMsgHdrCall(type, size, cmd, long_bytes) ==
    /\ obs' = [ Quiet(obs) EXCEPT !.call =
                  [ op |-> "set_msg_hdr", arg |-> <<type, size, cmd, long_bytes>>,
                    ret |-> legoev3_uart_set_msg_hdr(type, size, cmd, long_bytes),
                    out |-> <<>> ] ]
    /\ UNCHANGED <<port, tty, wire, sensor>>

NextHdr ==
    \E type \in MsgTypes, size \in PayloadSizes, cmd \in 0..7, long_bytes \in LongSizes :
        SetMsgHdrCall(type, size, cmd, long_bytes)

SpecHdr == Init /\ [][NextHdr]_vars

\* Under SpecClose the sensor of SpecUser talks to the session, the work
\* items, the timer and the tasklet run when they are due, and the tty is
\* closed at any moment.  The tty layer delivers nothing once it has called
\* legoev3_uart_close.
CloseFrames ==
    { TypeCmd(16),
      InfoNameMsg(0) \o ModesCmd(2, 2) \o InfoFormatMsg(0) \o <<LEGOEV3_UART_SYS_ACK>>,
      DataByte(0, 7) }

NextClose ==
    \/ \E f \in CloseFrames : tty.close = 0 /\ ReceiveFrame(f)
    \/ SendAckStart
    \/ \E registered \in BOOLEAN : SendAckRun(registered)
    \/ legoev3_uart_change_bitrate
    \/ legoev3_uart_keep_alive_timer_callback
    \/ legoev3_uart_send_keep_alive
    \/ legoev3_uart_close

SpecClose == Init /\ [][NextClose]_vars

\* Under SpecHappy a sensor with one mode or with two sends its handshake
\* once and DATA afterwards, every frame arrives whole, and a delayed work
\* that is pending eventually runs.  The line is fair in that nothing stays
\* on the wire for ever: only Receive takes bytes off it, and Receive is
\* enabled whenever there are any.
NextHappy ==
    \/ \E modes \in 1..2 : SensorHappy(modes)
    \/ Receive(Len(wire))
    \/ legoev3_uart_send_ack(TRUE)
    \/ legoev3_uart_change_bitrate
    \/ legoev3_uart_keep_alive_timer_callback
    \/ legoev3_uart_send_keep_alive

SpecHappy ==
    /\ Init
    /\ [][NextHappy]_vars
    /\ WF_vars(\E modes \in 1..2 : SensorHappy(modes))
    /\ []<>(wire = <<>>)
    /\ WF_vars(legoev3_uart_send_ack(TRUE))
    /\ WF_vars(legoev3_uart_change_bitrate)

\* Under SpecTrip a sensor of type 16 or of type 29 sends its handshake and
\* then 7 DATA frames of mode 0 with a wrong checksum; every frame arrives
\* whole.
NextTrip ==
    \/ \E type \in { 16, 29 } : SensorTrip(type)
    \/ Receive(Len(wire))
    \/ legoev3_uart_send_ack(TRUE)
    \/ legoev3_uart_change_bitrate
    \/ legoev3_uart_keep_alive_timer_callback
    \/ legoev3_uart_send_keep_alive

SpecTrip == Init /\ [][NextTrip]_vars

\* Under SpecRace a two-mode sensor sends its handshake and good and damaged
\* DATA; the keep-alive timer's interrupt may arrive while
\* legoev3_uart_receive_buf is between loading and storing num_data_err, and
\* the work items and the tasklet run between two runs of it.
RaceFrames ==
    { TypeCmd(16),
      InfoNameMsg(0) \o ModesCmd(2, 2) \o InfoFormatMsg(0) \o <<LEGOEV3_UART_SYS_ACK>>,
      DataByte(0, 7), Corrupt(DataByte(0, 7)) }

NextRace ==
    \/ \E f \in RaceFrames : tty.running = "none" /\ ReceiveFrame(f)
    \/ \E f \in RaceFrames : ReceiveBadLoad(f)
    \/ ReceiveBadStore
    \/ legoev3_uart_keep_alive_timer_callback
    \/ tty.running = "none" /\ legoev3_uart_send_ack(TRUE)
    \/ tty.running = "none" /\ legoev3_uart_change_bitrate
    \/ tty.running = "none" /\ legoev3_uart_send_keep_alive

SpecRace == Init /\ [][NextRace]_vars

\* Under SpecRestart the sensor restarts after a complete handshake; every
\* frame arrives whole.
NextRestart ==
    \/ SensorRestart
    \/ Receive(Len(wire))
    \/ legoev3_uart_send_ack(TRUE)
    \/ legoev3_uart_change_bitrate
    \/ legoev3_uart_keep_alive_timer_callback
    \/ legoev3_uart_send_keep_alive

SpecRestart == Init /\ [][NextRestart]_vars

\* Under SpecInfo a sensor of up to eight modes describes modes 0, 1 and 7:
\* names, formats and two different raw scalings for mode 0 arrive one frame
\* per delivery, in any order and any number of times.
InfoRawMsg(mode, lo, hi) ==                                 \* 0x98|mode RAW lo hi
    Frame(<<152 + mode, LEGOEV3_UART_INFO_RAW, lo, 0, 0, 0, hi, 0, 0, 0>>)
InfoFormatOf(mode, sets, format, figures, decimals) ==      \* 0x90|mode FORMAT
    Frame(<<144 + mode, LEGOEV3_UART_INFO_FORMAT, sets, format, figures, decimals>>)

InfoModes == { 0, 1, 7 }

InfoFrames ==
    { TypeCmd(16), ModesCmd(8, 8), SpeedCmd(0, 225, 0, 0) }
    \cup { InfoNameMsg(m) : m \in InfoModes }
    \cup { InfoRawMsg(0, v, v + 1) : v \in { 1, 3 } }
    \cup { InfoFormatOf(m, 1, 1, 5, 1) : m \in InfoModes }

NextInfo ==
    \/ \E f \in InfoFrames : ReceiveFrame(f)
    \/ legoev3_uart_change_bitrate

SpecInfo == Init /\ [][NextInfo]_vars

\* Under SpecModes the sensor announces its modes with every form of
\* CMD_MODES: the three-byte form (modes only) and the four-byte form (modes
\* and views), with first and second payload bytes at and beyond both ends of
\* the range.  The name of mode 0 arrives too, one frame per delivery.
ModesCmdShort(modes) == Frame(<<65, modes - 1>>)            \* 0x41 modes-1 chk

ModesFrames ==
    { TypeCmd(16), InfoNameMsg(0) }
    \cup { ModesCmdShort(n) : n \in { 1, 2, 8, 9 } }
    \cup { ModesCmd(n, v) : n \in { 1, 2, 8 }, v \in { 1, 2, 8, 9, 256 } }

NextModes ==
    \/ \E f \in ModesFrames : ReceiveFrame(f)
    \/ legoev3_uart_change_bitrate

SpecModes == Init /\ [][NextModes]_vars

\* Under SpecBurst a one-mode-described sensor completes its handshake and
\* then sends measurements of 32 bytes in bursts: 1, 7 or 8 frames back to
\* back (34, 238 and 272 bytes), or a frame cut in two with a burst behind its
\* second half.  The tty layer hands over each burst in one call.
Data32 == Frame(<<232>> \o [ k \in 1..32 |-> k ])           \* 0xE8: DATA, 32 bytes, mode 0

RECURSIVE Burst(_)
Burst(k) == IF k = 0 THEN <<>> ELSE Data32 \o Burst(k - 1)

\* what goes out after a frame was cut: its second half, alone or with a
\* burst behind it
BurstTails == { Drop(Data32, 17), Drop(Data32, 17) \o Burst(7) }

BurstFrames ==
    { TypeCmd(16),
      InfoNameMsg(0) \o ModesCmd(2, 2) \o InfoFormatMsg(0) \o <<LEGOEV3_UART_SYS_ACK>>,
      Burst(1), Burst(7), Burst(8), Take(Data32, 17) }
    \cup BurstTails

SensorBurst(f) ==
    /\ wire = <<>>
    /\ f \in BurstTails <=> sensor.frame = Take(Data32, 17)
    /\ wire' = f
    /\ sensor' = [ sensor EXCEPT !.frame = f,
                                 !.synced = port.synced,
                                 !.backlog = Backlog,
                                 !.pieces = 0,
                                 !.seen = <<>> ]
    /\ UNCHANGED <<port, tty, obs>>

NextBurst ==
    \/ \E f \in BurstFrames : SensorBurst(f)
    \/ Receive(Len(wire))
    \/ legoev3_uart_send_ack(TRUE)
    \/ legoev3_uart_change_bitrate
    \/ legoev3_uart_keep_alive_timer_callback
    \/ legoev3_uart_send_keep_alive

SpecBurst == Init /\ [][NextBurst]_vars

\* Under SpecData a sensor that has completed its handshake sends measurements
\* of every size a DATA header can declare, 1, 2, 4 .. 128 bytes, for mode 1;
\* each frame arrives in one delivery.
DataOf(mode, exp) ==                                        \* 0xC0 | exp << 3 | mode
    Frame(<<192 + 8 * exp + mode>> \o [ k \in 1..(2 ^ exp) |-> k ])

DataFrames ==
    { TypeCmd(16),
      InfoNameMsg(0) \o ModesCmd(2, 2) \o InfoFormatMsg(0) \o <<LEGOEV3_UART_SYS_ACK>> }
    \cup { DataOf(1, exp) : exp \in 0..7 }

NextData ==
    \/ \E f \in DataFrames : ReceiveFrame(f)
    \/ legoev3_uart_send_ack(TRUE)
    \/ legoev3_uart_change_bitrate
    \/ legoev3_uart_keep_alive_timer_callback
    \/ legoev3_uart_send_keep_alive

SpecData == Init /\ [][NextData]_vars

(***************************************************************************)
(* Properties                                                              *)
(***************************************************************************)
BadDataEvent == obs.last_event \in { "bad_chksum", "miss" }

\* C1: whenever the session is Running (synced and info_done), the four
\* required bits CMD_TYPE, CMD_MODES, INFO_NAME and INFO_FORMAT are set in
\* info_flags.
C1_RunningHasRequiredInfo ==
    Running => LEGOEV3_UART_INFO_FLAG_REQUIRED \subseteq port.info_flags

\* C2: once the session has synced for the first time, current_mode is less
\* than num_modes.
C2_ModeBelowNumModes ==
    port.type # LEGOEV3_UART_TYPE_UNKNOWN => port.mode < port.num_modes

\* C3: a keep-alive tick that counts a miss and raises data_error_count past
\* the threshold makes the session leave Running: synced is cleared and the
\* baud reset to 2400 is scheduled.
C3_KeepAliveTripResyncs ==
    (obs.last_event = "miss" /\ port.num_data_err > LEGOEV3_UART_MAX_DATA_ERR)
        => /\ ~port.synced
           /\ port.new_baud_rate = LEGOEV3_UART_SPEED_MIN
           /\ port.change_bitrate_work

C5_BadChecksumOnlyRgbRaw ==
    \A k \in 1..Len(obs.frames) :
        LET e == obs.frames[k]
            rgb == port.type = 29 /\ e.bytes[1] = 220
        IN  /\ (e.verdict = "ok" /\ ~e.chk_ok) => rgb
            /\ (e.verdict = "bad_checksum") => ~rgb
            /\ (e.verdict = "ok") => Len(e.bytes) = legoev3_uart_msg_size(e.bytes[1])


\* C6: when the sensor keeps sending its complete handshake, in whatever
\* pieces, and pending work and timers keep firing, the session reaches
\* Running again and again.
C6_NeverWedges == []<>Running

IsTypeCmd(f) ==
    /\ Len(f) = 3
    /\ f[1] = LEGOEV3_UART_MSG_TYPE_CMD + LEGOEV3_UART_CMD_TYPE
    /\ ValidType(f[2])
    /\ f[3] = Xor(Xor(255, f[1]), f[2])

\* C7: a valid TYPE command sent to an unsynced session and split over two
\* consecutive deliveries synchronises the session with that sensor type.
C7_SplitTypeSyncs ==
    (IsTypeCmd(sensor.frame) /\ ~sensor.synced /\ wire = <<>> /\ sensor.pieces = 2)
        => (port.synced /\ port.type = sensor.frame[2])

WellFormed(f) ==
    /\ Len(f) = legoev3_uart_msg_size(f[1])
    /\ Len(f) > 1 => f[Len(f)] = XorFold(f, Len(f) - 1)

Delivered == Take(sensor.frame, Len(sensor.frame) - Len(wire))

\* the sensor is sending a well-formed frame to a synced session whose buffer
\* was empty, and a part of it has been delivered
FrameUnderWay ==
    /\ sensor.synced /\ sensor.backlog = 0 /\ sensor.pieces > 0
    /\ WellFormed(sensor.frame)

C9_LeadingFFConsumed ==
    (port.synced /\ Len(port.buffer) > 0) => port.buffer[1] # 255

\* C10: a SYS_SYNC at the head of the buffer that is followed by 0xFF is
\* consumed together with it, as two bytes in one pass.
C10_SyncWithChecksumIsOneUnit ==
    \A k \in 1..Len(obs.frames) :
        (obs.frames[k].bytes = <<LEGOEV3_UART_SYS_SYNC>> /\ obs.frames[k].follow = 255)
            => obs.frames[k].size = 2

\* C11: write_ptr never exceeds the buffer size, and a delivery whose bytes
\* do not all fit behind the bytes already held makes the session resync:
\* synced cleared, new_baud_rate 2400, baud change scheduled.
C11_BufferBounded ==
    /\ Len(port.buffer) <= LEGOEV3_UART_BUFFER_SIZE
    /\ obs.past_end => /\ ~port.synced
                       /\ port.new_baud_rate = LEGOEV3_UART_SPEED_MIN
                       /\ port.change_bitrate_work

\* a delivery did not fit: the buffer was filled to its last byte and the
\* session resynced
C11_Witness ==
    /\ obs.past_end /\ ~port.synced
    /\ Len(port.buffer) = LEGOEV3_UART_BUFFER_SIZE

\* C12: a set_mode(i) call with i < num_modes changes no field of the
\* session and only hands the three bytes of a CMD_SELECT frame (header, i,
\* checksum) to the tty; get_mode becomes i when a DATA frame for mode i is
\* accepted.
C12_SetModeOnlyTransmits ==
    [][ LET c == obs'.call
            n == Len(obs'.frames)
        IN  /\ (c.op = "set_mode" /\ c.arg[1] < port.num_modes) =>
                  /\ c.ret = 0
                  /\ port' = port
                  /\ tty'.baud = tty.baud
                  /\ Len(tty'.tx) = 3
                  /\ AndTypeMask(tty'.tx[1]) = LEGOEV3_UART_MSG_TYPE_CMD
                  /\ AndCmdMask(tty'.tx[1]) = LEGOEV3_UART_CMD_SELECT
                  /\ legoev3_uart_msg_size(tty'.tx[1]) = 3
                  /\ tty'.tx[2] = c.arg[1]
                  /\ tty'.tx[3] = Xor(Xor(255, tty'.tx[1]), c.arg[1])
            /\ (/\ n > 0
                /\ obs'.frames[n].verdict = "ok"
                /\ AndTypeMask(obs'.frames[n].bytes[1]) = LEGOEV3_UART_MSG_TYPE_DATA) =>
                  port'.mode = AndCmdMask(obs'.frames[n].bytes[1])
      ]_vars

\* set_mode(1) was called in Running while the current mode was 0
C12_Witness ==
    /\ obs.call.op = "set_mode" /\ obs.call.arg = <<1>> /\ obs.call.ret = 0
    /\ Running /\ legoev3_uart_get_mode = 0 /\ Len(tty.tx) = 3

\* C13: set_mode(i) with i >= num_modes and a write of more than 32 bytes
\* return an error, hand nothing to the tty and change no field of the
\* session.
C13_OutOfRangeRejected ==
    [][ LET c == obs'.call
        IN  (\/ c.op = "set_mode" /\ c.arg[1] >= port.num_modes
             \/ c.op = "write" /\ c.arg[1] > 32) =>
                /\ c.ret = -EINVAL
                /\ tty'.tx = <<>>
                /\ tty'.baud = tty.baud
                /\ port' = port
      ]_vars

\* a write of 33 bytes was refused in Running
C13_Witness ==
    /\ obs.call.op = "write" /\ obs.call.arg[1] = 33 /\ obs.call.arg[2] = 0
    /\ obs.call.ret = -EINVAL /\ Running

\* C14: read_value(i) returns a sample exactly when the session is Running
\* and i is less than data_sets of the current mode, and -ENXIO otherwise.
C14_ValueIffRunning ==
    obs.call.op = "show_value" =>
        ((obs.call.ret # -ENXIO) <=>
            (Running /\ obs.call.arg[1] < port.mode_info[port.mode].data_sets))

\* C15: decoding the byte the header encoder makes of a message type, a
\* payload size in {1, 2, 4, 8, 16, 32} and a command in 0..7 gives the three
\* back.
C15_HeaderRoundTrip ==
    obs.call.op = "set_msg_hdr" =>
        /\ AndTypeMask(obs.call.ret) = obs.call.arg[1]
        /\ LEGOEV3_UART_CMD_SIZE(obs.call.ret) = obs.call.arg[2]
        /\ AndCmdMask(obs.call.ret) = obs.call.arg[3]

\* the smallest of 1, 2, 4, 8, 16, 32 that is at least n
NextPowerOfTwo(n) == CHOOSE P \in PayloadSizes : P >= n /\ \A Q \in PayloadSizes : Q >= n => P <= Q

\* C16: a write of n bytes, n in 1..32, hands the tty P + 2 bytes, P the
\* smallest power of two that is at least n: a CMD_WRITE header declaring
\* payload size P, the n bytes, P - n zero bytes, and the checksum of all
\* that.
C16_WriteFrame ==
    (obs.call.op = "write" /\ obs.call.arg[1] \in 1..32 /\ obs.call.arg[2] = 0) =>
        LET n   == obs.call.arg[1]
            P   == NextPowerOfTwo(n)
            buf == obs.call.out
        IN  /\ Len(tty.tx) = P + 2
            /\ AndTypeMask(tty.tx[1]) = LEGOEV3_UART_MSG_TYPE_CMD
            /\ AndCmdMask(tty.tx[1]) = LEGOEV3_UART_CMD_WRITE
            /\ LEGOEV3_UART_CMD_SIZE(tty.tx[1]) = P
            /\ legoev3_uart_msg_size(tty.tx[1]) = Len(tty.tx)
            /\ \A k \in 1..P : tty.tx[k + 1] = IF k <= n THEN buf[k] ELSE 0
            /\ tty.tx[P + 2] = XorFold(tty.tx, P + 1)

\* C17: once legoev3_uart_close has returned, no sensor device of the
\* session is registered, neither delayed work is pending or executing, and
\* the keep-alive timer and its tasklet are not armed or scheduled.
C17_CloseLeavesNothing ==
    tty.close = 6 =>
        /\ tty.devices = 0
        /\ tty.running = "none"
        /\ ~port.send_ack_work
        /\ ~port.change_bitrate_work
        /\ ~port.keep_alive_timer
        /\ ~port.keep_alive_tasklet

\* the handshake of a sensor with so many modes goes through: the session
\* syncs on the TYPE command and stays synced, and the ACK work becomes
\* pending, then SYS_ACK is written to the tty, then the tty is set to 2400
\* baud with the session Running and the keep-alive timer armed
HappyHandshake(modes) ==
    /\ [](sensor.modes = modes /\ wire = <<>> => port.synced)
    /\ (sensor.modes = modes /\ sensor.idx = 1) ~> port.send_ack_work
    /\ (sensor.modes = modes /\ port.send_ack_work) ~>
          (tty.tx = <<LEGOEV3_UART_SYS_ACK>> /\ port.change_bitrate_work)
    /\ (sensor.modes = modes /\ port.change_bitrate_work) ~>
          ( /\ tty.baud = LEGOEV3_UART_SPEED_MIN
            /\ ~port.change_bitrate_work
            /\ Running
            /\ port.keep_alive_timer )

\* C18: the handshake of a one-mode sensor of type 16 (TYPE, MODES, INFO_NAME
\* and INFO_FORMAT for mode 0 with one data set of signed bytes, SYS_ACK, no
\* CMD_SPEED) causes no resync and leads, in this order, to the ACK work
\* pending, SYS_ACK written, the tty at 2400 baud, the session Running with
\* the keep-alive timer armed.
C18_OneModeHandshake == HappyHandshake(1)

\* the frame that a delivery to a Running session has just put through the
\* processing loop, when it is the only one
OneFrameInRunning == Running /\ Len(obs'.frames) = 1 /\ obs'.frames[1].running

\* C19: in Running, data_error_count goes up by one with each frame whose
\* checksum is wrong (the colour sensor's 0xDC frames, which the spec exempts
\* from the checksum, left aside) and with each keep-alive tick that had no
\* DATA before it, goes down by one with each accepted DATA frame when it is
\* positive and stays 0 otherwise; it is never negative, and after 5 bad
\* frames a good DATA frame leaves the session Running with the count at 4.
C19_DataErrorArithmetic ==
    [][ /\ port'.num_data_err >= 0
        /\ OneFrameInRunning =>
             LET e      == obs'.frames[1]
                 exempt == port.type = 29 /\ e.bytes[1] = 220
                 isData == AndTypeMask(e.bytes[1]) = LEGOEV3_UART_MSG_TYPE_DATA
             IN  /\ (~e.chk_ok /\ ~exempt) =>
                        port'.num_data_err = port.num_data_err + 1
                 /\ (e.chk_ok /\ isData) =>
                        /\ port'.num_data_err =
                               IF port.num_data_err > 0 THEN port.num_data_err - 1 ELSE 0
                        /\ port.num_data_err = 5 => Running' /\ port'.num_data_err = 4
        /\ (legoev3_uart_keep_alive_timer_callback /\ Running) =>
               port'.num_data_err =
                   IF port.data_rec THEN port.num_data_err ELSE port.num_data_err + 1
      ]_vars

\* the 7th frame with a wrong checksum has been delivered
SevenCorruptedFed ==
    /\ sensor.idx = 5 + LEGOEV3_UART_MAX_DATA_ERR + 1
    /\ wire = <<>>

\* C20: from Running, 7 frames with a wrong checksum and no good frame in
\* between end with the session Unsynced, last_err "Bad checksum.",
\* new_baud_rate 2400 and the baud change scheduled (or, when keep-alive
\* misses made the session resync before the 7th frame, already carried
\* out).
C20_SevenCorruptedResync ==
    SevenCorruptedFed =>
        /\ ~port.synced
        /\ port.last_err = "Bad checksum."
        /\ port.new_baud_rate = LEGOEV3_UART_SPEED_MIN
        /\ port.change_bitrate_work \/ tty.baud = LEGOEV3_UART_SPEED_MIN

\* C21: the handlers' updates of the session fields are serialised: the
\* increment that legoev3_uart_receive_buf applies to data_error_count for a
\* bad-checksum frame is an increment of the value the field holds when it
\* is stored, so an increment by the keep-alive tick is never overwritten.
C21_NoLostUpdate ==
    [][ (tty.running = "receive_buf" /\ tty'.running = "none") =>
            port'.num_data_err = port.num_data_err + 1 ]_vars

\* the sensor has sent the frame that makes the session resync
Restarted == sensor.idx > HandshakeLen

\* C22: the frame that makes the session resync leaves it Unsynced, and the
\* baud-rate change that the resync has scheduled sets the tty to 2400 baud
\* whatever arrives before it runs.
C22_ResyncRestoresMinBaud ==
    [][ /\ (sensor.idx = HandshakeLen + 1 /\ wire # <<>> /\ wire' = <<>>) => ~port'.synced
        /\ (Restarted /\ port.change_bitrate_work /\ ~port'.change_bitrate_work) =>
               tty'.baud = LEGOEV3_UART_SPEED_MIN
      ]_vars

\* C23: a resync cancels what is pending: while the session is Unsynced no
\* SYS_ACK is written to the tty, no sensor device is registered, and the
\* keep-alive timer is not armed.
C23_ResyncCancelsPending ==
    [][ ~port.synced =>
            /\ tty'.tx # <<LEGOEV3_UART_SYS_ACK>>
            /\ port'.sensor = port.sensor
            /\ port'.keep_alive_timer => port.keep_alive_timer
      ]_vars

\* mode m has been described since the last sync: INFO_NAME has stored its
\* name and INFO_FORMAT its number of data sets (the sync clears both)
Described(m) ==
    /\ port.mode_info[m].name # <<>>
    /\ port.mode_info[m].data_sets # 0

\* C24: SYS_ACK has been accepted (info_done is set) only if INFO_NAME and
\* INFO_FORMAT have been received for every mode below num_modes since the
\* last sync.
C24_AckNeedsAllModes ==
    port.info_done => \A m \in Modes : m < port.num_modes => Described(m)

\* the delivery just made held one frame, an INFO_FORMAT frame for mode m,
\* and the frame was accepted
FormatAccepted(m) ==
    /\ Len(obs'.frames) = 1
    /\ obs'.frames[1].verdict = "ok"
    /\ obs'.frames[1].bytes[1] = 144 + m
    /\ obs'.frames[1].bytes[2] = LEGOEV3_UART_INFO_FORMAT

\* C25: an accepted INFO_FORMAT frame for mode m stores its format, figures
\* and decimals bytes in mode_info[m], for every m including 0, and leaves
\* current_mode at m - 1 if m > 0 and at 0 if m = 0.
C25_FormatStoresAllFields ==
    [][ \A m \in Modes : FormatAccepted(m) =>
            /\ port'.mode_info[m].format = obs'.frames[1].bytes[4]
            /\ port'.mode_info[m].figures = obs'.frames[1].bytes[5]
            /\ port'.mode_info[m].decimals = obs'.frames[1].bytes[6]
            /\ port'.mode = IF m > 0 THEN m - 1 ELSE 0
      ]_vars

\* the delivery just made held one frame, a CMD_MODES frame announcing a
\* single mode, the first CMD_MODES of a synced session
SingleModeAnnounced ==
    /\ port.synced
    /\ LEGOEV3_UART_INFO_BIT_CMD_MODES \notin port.info_flags
    /\ Len(obs'.frames) = 1
    /\ obs'.frames[1].chk_ok
    /\ obs'.frames[1].bytes[1] \in { 65, 73 }
    /\ obs'.frames[1].bytes[2] = 0

\* C26: once the session has synced, num_modes and num_view_modes are both
\* in 1..8 whatever CMD_MODES frames have been received, and a CMD_MODES
\* frame announcing a single mode is accepted and recorded as num_modes = 1.
C26_ModeCountsInRange ==
    /\ [](port.type # LEGOEV3_UART_TYPE_UNKNOWN =>
              /\ port.num_modes \in 1..(LEGOEV3_UART_MODE_MAX + 1)
              /\ port.num_view_modes \in 1..(LEGOEV3_UART_MODE_MAX + 1))
    /\ [][ SingleModeAnnounced => port'.synced /\ port'.num_modes = 1 ]_vars

DuplicateErrors ==
    { "Received duplicate modes INFO.", "Received duplicate speed INFO.",
      "Received duplicate raw scaling INFO.", "Received duplicate percent scaling INFO.",
      "Received duplicate SI scaling INFO.", "Received duplicate SI units INFO.",
      "Received duplicate format INFO." }

\* the delivery just made held one well-formed frame with header byte hdr and
\* second byte cmd2, and the session was synced when it arrived
FrameDelivered(hdr, cmd2) ==
    /\ port.synced
    /\ Len(obs'.frames) = 1
    /\ obs'.frames[1].chk_ok
    /\ obs'.frames[1].bytes[1] = hdr
    /\ (cmd2 >= 0 => obs'.frames[1].bytes[2] = cmd2)

\* the frame just delivered is a second instance of a record that the session
\* has stored since its last sync
SecondInstance ==
    \/ FrameDelivered(73, -1) /\ LEGOEV3_UART_INFO_BIT_CMD_MODES \in port.info_flags
    \/ FrameDelivered(82, -1) /\ LEGOEV3_UART_INFO_BIT_CMD_SPEED \in port.info_flags
    \/ \E m \in Modes :
          \/ /\ FrameDelivered(152 + m, LEGOEV3_UART_INFO_RAW)
             /\ port.mode_info[m].raw_min # ZeroModeInfo.raw_min
          \/ /\ FrameDelivered(144 + m, LEGOEV3_UART_INFO_FORMAT)
             /\ port.mode_info[m].data_sets # 0

\* C27: a second instance of a set-once record (CMD_MODES, CMD_SPEED, or
\* INFO_RAW / INFO_FORMAT for a mode that already has one) makes the session
\* resync with a last_error reporting a duplicate, and what the first
\* instance stored is not overwritten.
C27_DuplicateResyncs ==
    [][ SecondInstance =>
            /\ ~port'.synced
            /\ port'.last_err \in DuplicateErrors
            /\ port'.mode_info = port.mode_info
            /\ port'.num_modes = port.num_modes
            /\ port'.num_view_modes = port.num_view_modes
      ]_vars

\* the frames that the byte stream s consists of, in order; a last element
\* <<>> says that s ends inside a frame or holds a frame with a wrong checksum
RECURSIVE SplitFrames(_)
SplitFrames(s) ==
    IF s = <<>> THEN <<>>
    ELSE LET n == legoev3_uart_msg_size(s[1])
         IN  IF n > Len(s) \/ Take(s, n) # Frame(Take(s, n - 1)) THEN << <<>> >>
             ELSE << Take(s, n) >> \o SplitFrames(Drop(s, n))

\* a Running session that has no data error counted is handed the whole wire,
\* and the bytes it has buffered followed by the bytes of the wire are
\* complete well-formed DATA frames
WholeFramesDelivered ==
    /\ Running
    /\ port.num_data_err = 0
    /\ wire # <<>> /\ wire' = <<>>
    /\ \A k \in DOMAIN SplitFrames(port.buffer \o wire) :
           LET f == SplitFrames(port.buffer \o wire)[k]
           IN  f # <<>> /\ AndTypeMask(f[1]) = LEGOEV3_UART_MSG_TYPE_DATA

\* C28: a delivery that, together with the buffered leftover, consists solely
\* of complete well-formed frames (measurements, for a Running session) never
\* makes the session resync, and its frames are all processed, in arrival
\* order.
C28_WholeFramesNeverResync ==
    [][ WholeFramesDelivered =>
            /\ port'.synced
            /\ [ k \in DOMAIN obs'.frames |-> obs'.frames[k].bytes ]
                   = SplitFrames(port.buffer \o wire)
      ]_vars

\* the delivery just made held one frame, a DATA frame, and it was accepted
DataAccepted ==
    /\ Len(obs'.frames) = 1
    /\ obs'.frames[1].verdict = "ok"
    /\ AndTypeMask(obs'.frames[1].bytes[1]) = LEGOEV3_UART_MSG_TYPE_DATA

\* the fields of the session that DATA processing may not touch
SessionFields(p) ==
    << p.sensor, p.send_ack_work, p.change_bitrate_work, p.keep_alive_timer,
       p.keep_alive_tasklet, p.type, p.num_modes, p.num_view_modes,
       p.new_baud_rate, p.info_flags, p.last_err, p.synced, p.info_done >>

\* C29: an accepted DATA frame, whatever payload size its header declares,
\* writes nothing past the 32 bytes of raw_data of the mode it names, and
\* changes nothing else of that mode, nothing of any other mode and no other
\* session field than current_mode, last_data_seen and data_error_count.
C29_DataStaysInRawData ==
    [][ DataAccepted =>
            LET m == AndCmdMask(obs'.frames[1].bytes[1])
            IN  /\ obs'.overrun = 0
                /\ port'.mode_info =
                       [ port.mode_info EXCEPT ![m].raw_data = port'.mode_info[m].raw_data ]
                /\ SessionFields(port') = SessionFields(port)
      ]_vars

\* the handshake is being collected: synced, and no SYS_ACK accepted yet
Collecting == port.synced /\ ~port.info_done

\* C30: the ACK-send becomes pending only in a step taken while the session
\* is Collecting: a SYS_ACK received when info_done is already set schedules
\* no further ACK-send (and so no further SYS_ACK and baud change).
C30_AckScheduledOnlyInCollecting ==
    [][ (~port.send_ack_work /\ port'.send_ack_work) => Collecting ]_vars

\* the SYS_ACK of the current handshake has been emitted: the session is
\* synced, has accepted the sensor's SYS_ACK, and the ACK work has run
AckEmitted == port.synced /\ port.info_done /\ ~port.send_ack_work

\* C31: a run of the baud-change work sets the tty to a rate other than 2400
\* only after the driver has emitted the SYS_ACK of the current handshake;
\* in particular a run left pending by an earlier resync does not apply the
\* CMD_SPEED value of a new handshake that is still being collected.
C31_SpeedOnlyAfterAck ==
    [][ (port.change_bitrate_work /\ ~port'.change_bitrate_work
            /\ tty'.baud # LEGOEV3_UART_SPEED_MIN) => AckEmitted ]_vars

\* the baud change that follows the handshake has run: the sensor's SYS_ACK
\* was accepted, the sensor device is registered, and neither the ACK work
\* nor the baud-change work is still pending
BaudChangeDone ==
    /\ port.info_done /\ port.sensor
    /\ ~port.send_ack_work /\ ~port.change_bitrate_work

\* C32: whenever the session is Running and the post-handshake baud change
\* has run, the keep-alive timer is armed.
C32_KeepAliveArmedWhileRunning ==
    (Running /\ BaudChangeDone) => port.keep_alive_timer

=============================================================================
